---- MODULE Spec2Model ----
(***************************************************************************)
(* Model of src/index.ts: the decorators suite, test, slow, timeout, only  *)
(* and skip, and the callbacks suite() hands to the host runner (describe, *)
(* it, it.skip, it.only, before, after, beforeEach, afterEach).            *)
(*                                                                         *)
(* JavaScript values are records [t, s, n]: t is the typeof tag, s the     *)
(* string payload (a string's text, a function's name), n the numeric      *)
(* payload.  Truthiness, && and || follow the language.                    *)
(*                                                                         *)
(* The host runner is the environment: it calls the describe callback      *)
(* synchronously with its suite context as `this`, runs the registered     *)
(* hooks and cases in registration order, hands a completion callback to   *)
(* every callback that declares a parameter, and calls each case callback  *)
(* with that case's own context as `this`.                                 *)
(***************************************************************************)
EXTENDS Integers, Sequences, FiniteSets, TLC

VARIABLES
    pc,            \* position of the test file / the runner
    target,        \* the class the decorators are applied to
    tags,          \* hidden properties stored on each method object
    testMarkers,   \* names of the markers returned by test(name)
    suiteMarkers,  \* names of the markers returned by suite(name)
    describeCalls, \* names the runner's describe received
    beforeAllHooks, afterAllHooks, beforeEachHooks, afterEachHooks,
    cases,         \* registrations through it / it.skip / it.only, in order
    lexicalThis,   \* `this` of the describe callback, captured by the arrows
    instance,      \* the `instance` variable of the describe callback
    created,       \* number of objects constructed by new target()
    cur,           \* index in cases of the case the runner is at
    calls,         \* what the last invoked callback did, in order
    ret,           \* what the last invoked callback returned
    built,         \* per case, the objects its per-case setup constructed
    bodyThis       \* per case, the receiver its body was invoked on

vars == <<pc, target, tags, testMarkers, suiteMarkers, describeCalls,
          beforeAllHooks, afterAllHooks, beforeEachHooks, afterEachHooks,
          cases, lexicalThis, instance, created, cur, calls, ret, built,
          bodyThis>>

----------------------------------------------------------------------------
(* Bounds *)

\* Largest number of tags the members of the class carry together.
MaxTags == 3

----------------------------------------------------------------------------
(* JavaScript values *)

Undefined == [t |-> "undefined", s |-> "", n |-> 0]
Str(x) == [t |-> "string", s |-> x, n |-> 0]
Num(x) == [t |-> "number", s |-> "", n |-> x]
Bool(b) == [t |-> "boolean", s |-> "", n |-> IF b THEN 1 ELSE 0]
Fn(name) == [t |-> "function", s |-> name, n |-> 0]

Truthy(v) ==
    CASE v.t = "undefined" -> FALSE
      [] v.t = "string" -> v.s # ""
      [] v.t = "number" -> v.n # 0
      [] v.t = "boolean" -> v.n = 1
      [] OTHER -> TRUE

\* a && b and a || b
And(a, b) == IF Truthy(a) THEN b ELSE a
Or(a, b) == IF Truthy(a) THEN a ELSE b

\* The name property of a value: a function has one, a string has none.
NameOf(v) == IF v.t = "function" THEN Str(v.s) ELSE Undefined

----------------------------------------------------------------------------
(* Hidden property keys *)

nodeSymbol(key) == "__mts_" \o key

testNameSymbol == nodeSymbol("test")
\* Mutant: the slow tag stored under the display-name key.
slowSymbolClash == nodeSymbol("test")
slowSymbol == nodeSymbol("slow")
timeoutSymbol == nodeSymbol("timout")
onlySymbol == nodeSymbol("only")
skipSymbol == nodeSymbol("skip")

Symbols == {testNameSymbol, slowSymbol, timeoutSymbol, onlySymbol, skipSymbol}

----------------------------------------------------------------------------
(* The runner's entry points and the contexts it calls back with *)

itFunction == Fn("it")
skipFunction == Fn("it.skip")
onlyFunction == Fn("it.only")

\* `this` of the describe callback, and `this` of a running case callback.
SuiteContext == "describe.this"
CaseContext == "it.this"

----------------------------------------------------------------------------
(* Inputs *)

\* Keys of the members reachable through the prototype, in for..in order.
KeyOrder == <<"a", "b">>
Keys == {KeyOrder[i] : i \in 1..Len(KeyOrder)}

\* Explicit names handed to test(name) and suite(name).
TestNames == {"", "adds numbers"}
SuiteNames == {"", "S"}

\* Times handed to slow(time) and timeout(time).
SlowTimes == {5}
TimeoutTimes == {0}

\* An optional hook is absent, or a function with this many parameters.
Absent == -1
HookOpt == {Absent, 0, 1, 2}

\* The prototype object, as the first argument of a member decorator.
Proto == [t |-> "object", s |-> "prototype", n |-> 0]

\* The classes a test file may define.  isFn: prototype instanceof Function
\* (the class derives from Function).  own[k]: k is an own property of the
\* prototype, otherwise it is inherited from a base class.  arity[k]: the
\* declared parameter count of the method.
\* Bounded to the classes that vary the hooks over fixed members (at most
\* one hook, or all four of one arity) and those that vary the members
\* without hooks.
HooksOf(c) == <<c.before, c.after, c.protoBefore, c.protoAfter>>
FewHooks(c) ==
    \/ Cardinality({i \in 1..4 : HooksOf(c)[i] # Absent}) <= 1
    \/ \E h \in HookOpt \ {Absent} : \A i \in 1..4 : HooksOf(c)[i] = h
NoHooks(c) == \A i \in 1..4 : HooksOf(c)[i] = Absent
StdMembers(c) ==
    /\ \A k \in Keys : c.own[k]
    /\ c.arity["a"] = 0
    /\ c.arity["b"] = 1
SuiteCtors ==
    { c \in [ name : {"Calculator"}, isFn : BOOLEAN,
              before : HookOpt, after : HookOpt,
              protoBefore : HookOpt, protoAfter : HookOpt,
              own : [Keys -> BOOLEAN], arity : [Keys -> 0..2] ] :
        /\ c.own["a"]
        /\ c.arity["b"] <= 1
        /\ FewHooks(c)
        /\ NoHooks(c) \/ StdMembers(c) }

----------------------------------------------------------------------------
(* What a callback did: one record per step, in order *)

Ev(op, on, this, args, val) ==
    [op |-> op, on |-> on, this |-> this, args |-> args, val |-> val]

\* The receiver of a static hook is the class itself.
ClassRef == -1

ReturnOf(fn) == "return of " \o fn

----------------------------------------------------------------------------
(* Initial state: a class has been declared, nothing is decorated yet *)

Init ==
    /\ pc = "define"
    /\ target \in SuiteCtors
    /\ tags = [k \in Keys |-> [y \in Symbols |-> Undefined]]
    /\ testMarkers = {}
    /\ suiteMarkers = {}
    /\ describeCalls = <<>>
    /\ beforeAllHooks = <<>>
    /\ afterAllHooks = <<>>
    /\ beforeEachHooks = <<>>
    /\ afterEachHooks = <<>>
    /\ cases = <<>>
    /\ lexicalThis = ""
    /\ instance = 0
    /\ created = 0
    /\ cur = 0
    /\ calls = <<>>
    /\ ret = "undefined"
    /\ built = <<>>
    /\ bodyThis = <<>>

registryVars == <<tags, testMarkers>>
runnerVars == <<describeCalls, beforeAllHooks, afterAllHooks, beforeEachHooks,
                afterEachHooks, cases, lexicalThis>>
runVars == <<instance, created, cur, built, bodyThis>>

----------------------------------------------------------------------------
(* Marker registry: test, slow, timeout, only, skip *)

\* target[propertyKey] is a method object.
HasMember(tgt, propertyKey) ==
    tgt.t = "object" /\ propertyKey.t = "string" /\ propertyKey.s \in Keys

\* The number of tags present.
TagCount(tg) ==
    Cardinality({<<k, y>> \in Keys \X Symbols : tg[k][y] # Undefined})

\* target[propertyKey][symbol] = value; a TypeError when target[propertyKey]
\* is undefined.
SetTag(tgt, propertyKey, symbol, value) ==
    IF HasMember(tgt, propertyKey)
    THEN /\ tags' = [tags EXCEPT ![propertyKey.s][symbol] = value]
         /\ TagCount(tags') <= MaxTags
         /\ pc' = pc
         /\ ret' = "undefined"
    ELSE /\ pc' = "crashed"
         /\ ret' = "TypeError"
         /\ UNCHANGED tags

\* The name test() records: the closure `result` of test().
TestNameFor(decoratorName, propertyKey) == Or(decoratorName, propertyKey)

TestResult(decoratorName, tgt, propertyKey) ==
    SetTag(tgt, propertyKey, testNameSymbol,
           TestNameFor(decoratorName, propertyKey))

\* typeof target === "string" && target
DecoratorName(arg) == And(Bool(arg.t = "string"), arg)

\* decoratorName ? result : result(target, ...)
ReturnsMarker(decoratorName) == Truthy(decoratorName)

\* test(target, propertyKey)
Test(arg, propertyKey) ==
    /\ pc = "define"
    /\ LET decoratorName == DecoratorName(arg)
       IN IF ReturnsMarker(decoratorName)
          THEN /\ testMarkers' = testMarkers \cup {decoratorName.s}
               /\ ret' = "result"
               /\ UNCHANGED <<pc, tags>>
          ELSE /\ TestResult(decoratorName, arg, propertyKey)
               /\ UNCHANGED testMarkers
    /\ UNCHANGED <<target, suiteMarkers, calls>>
    /\ UNCHANGED runnerVars
    /\ UNCHANGED runVars

\* A marker returned by test(name), applied to a member.
ApplyTestMarker(name, key) ==
    /\ pc = "define"
    /\ name \in testMarkers
    /\ TestResult(Str(name), Proto, Str(key))
    /\ UNCHANGED <<target, testMarkers, suiteMarkers, calls>>
    /\ UNCHANGED runnerVars
    /\ UNCHANGED runVars

\* slow(time)(target, propertyKey)
Slow(time, key) ==
    /\ pc = "define"
    /\ SetTag(Proto, Str(key), slowSymbol, Num(time))
    /\ UNCHANGED <<target, testMarkers, suiteMarkers, calls>>
    /\ UNCHANGED runnerVars
    /\ UNCHANGED runVars

\* timeout(time)(target, propertyKey)
Timeout(time, key) ==
    /\ pc = "define"
    /\ SetTag(Proto, Str(key), timeoutSymbol, Num(time))
    /\ UNCHANGED <<target, testMarkers, suiteMarkers, calls>>
    /\ UNCHANGED runnerVars
    /\ UNCHANGED runVars

\* only(target, propertyKey)
Only(key) ==
    /\ pc = "define"
    /\ SetTag(Proto, Str(key), onlySymbol, Bool(TRUE))
    /\ UNCHANGED <<target, testMarkers, suiteMarkers, calls>>
    /\ UNCHANGED runnerVars
    /\ UNCHANGED runVars

\* skip(target, propertyKey)
Skip(key) ==
    /\ pc = "define"
    /\ SetTag(Proto, Str(key), skipSymbol, Bool(TRUE))
    /\ UNCHANGED <<target, testMarkers, suiteMarkers, calls>>
    /\ UNCHANGED runnerVars
    /\ UNCHANGED runVars

----------------------------------------------------------------------------
(* Suite translator: what the describe callback registers *)

\* Mutant: only a hook with exactly one parameter gets the callback.
HookWrapperExactlyOne(fn, length) ==
    IF length = 1
    THEN [len |-> 1, fwd |-> TRUE, fn |-> fn]
    ELSE [len |-> 0, fwd |-> FALSE, fn |-> fn]

\* The callback registered for a hook function with `length` declared
\* parameters: len is the callback's own declared parameter count, fwd
\* whether it hands its first argument on to fn.
HookWrapper(fn, length) ==
    IF length > 0
    THEN [len |-> 1, fwd |-> TRUE, fn |-> fn]
    ELSE [len |-> 0, fwd |-> FALSE, fn |-> fn]

\* if (target.before) beforeAll(...)
BeforeAllOf(c) ==
    IF c.before # Absent
    THEN <<HookWrapper("target.before", c.before)>>
    ELSE <<>>

\* if (target.after) afterAll(...)
AfterAllOf(c) ==
    IF c.after # Absent
    THEN <<HookWrapper("target.after", c.after)>>
    ELSE <<>>

\* beforeEachFunction; fn = "" when the prototype has no before hook.
BeforeEachOf(c) ==
    IF c.protoBefore # Absent
    THEN HookWrapper("prototype.before", c.protoBefore)
    ELSE [len |-> 0, fwd |-> FALSE, fn |-> ""]

\* afterEachFunction; fn = "" when the prototype has no after hook.
AfterEachOf(c) ==
    IF c.protoAfter # Absent
    THEN HookWrapper("prototype.after", c.protoAfter)
    ELSE [len |-> 0, fwd |-> FALSE, fn |-> ""]

\* Mutant: inherited members are enumerated too.
EnumeratedInherited(c, key) == c.isFn

\* The loop body is entered for key, i.e. the `continue` is not taken.
Enumerated(c, key) ==
    ~(~c.own[key] \/ ~c.isFn)

\* Mutant: the only flag is looked at before the skip flag.
TestFuncOnlyFirst(shouldSkip, shouldOnly) ==
    Or(Or(And(shouldOnly, onlyFunction), And(shouldSkip, skipFunction)),
       itFunction)

\* (shouldSkip && skipFunction) || (shouldOnly && onlyFunction) || itFunction
TestFunc(shouldSkip, shouldOnly) ==
    Or(Or(And(shouldSkip, skipFunction), And(shouldOnly, onlyFunction)),
       itFunction)

\* The registrations the loop body makes for key: none or one.
RegisterKey(c, key) ==
    LET testName == tags[key][testNameSymbol]
        testFunc == TestFunc(tags[key][skipSymbol], tags[key][onlySymbol])
        length == c.arity[key]
    IN IF ~Truthy(testName) THEN <<>>
       ELSE IF length = 0
       THEN <<[entry |-> testFunc.s, name |-> testName, key |-> key,
               len |-> 0, fwd |-> FALSE]>>
       ELSE IF length = 1
       THEN <<[entry |-> testFunc.s, name |-> testName, key |-> key,
               len |-> 1, fwd |-> TRUE]>>
       ELSE <<>>

RECURSIVE RegisterFrom(_, _)
\* for (let key in prototype) { ... } from the i-th key on
RegisterFrom(c, i) ==
    IF i > Len(KeyOrder) THEN <<>>
    ELSE (IF Enumerated(c, KeyOrder[i]) THEN RegisterKey(c, KeyOrder[i])
          ELSE <<>>) \o RegisterFrom(c, i + 1)

\* Mutant: the class name is used whatever name was given.
TargetNameOfClass(decoratorName, tgt) == NameOf(tgt)

\* let targetName = decoratorName || target.name
TargetName(decoratorName, tgt) == Or(decoratorName, NameOf(tgt))

\* The closure `result` of suite(): one describe call, whose callback the
\* runner invokes at once.  With a string as target the callback throws at
\* prototype.before, prototype being undefined.
SuiteResult(decoratorName, tgt) ==
    /\ describeCalls' = Append(describeCalls, TargetName(decoratorName, tgt))
    /\ lexicalThis' = SuiteContext
    /\ IF tgt.t = "function"
       THEN /\ beforeAllHooks' = BeforeAllOf(target)
            /\ afterAllHooks' = AfterAllOf(target)
            /\ beforeEachHooks' = <<BeforeEachOf(target)>>
            /\ afterEachHooks' = <<AfterEachOf(target)>>
            /\ cases' = RegisterFrom(target, 1)
            /\ pc' = "registered"
            /\ ret' = "undefined"
       ELSE /\ pc' = "crashed"
            /\ ret' = "TypeError"
            /\ UNCHANGED <<beforeAllHooks, afterAllHooks, beforeEachHooks,
                           afterEachHooks, cases>>

\* suite(target)
Suite(arg) ==
    /\ pc = "define"
    /\ LET decoratorName == DecoratorName(arg)
       IN IF ReturnsMarker(decoratorName)
          THEN /\ suiteMarkers' = suiteMarkers \cup {decoratorName.s}
               /\ ret' = "result"
               /\ UNCHANGED pc
               /\ UNCHANGED runnerVars
          ELSE /\ SuiteResult(decoratorName, arg)
               /\ UNCHANGED suiteMarkers
    /\ UNCHANGED <<target, calls>>
    /\ UNCHANGED registryVars
    /\ UNCHANGED runVars

\* A marker returned by suite(name), applied to the class.
ApplySuiteMarker(name) ==
    /\ pc = "define"
    /\ name \in suiteMarkers
    /\ SuiteResult(Str(name), Fn(target.name))
    /\ UNCHANGED <<target, suiteMarkers, calls>>
    /\ UNCHANGED registryVars
    /\ UNCHANGED runVars

----------------------------------------------------------------------------
(* The callbacks, as the runner invokes them *)

\* The arguments the runner passes to a callback of declared length len.
RunnerArgs(len) == IF len > 0 THEN <<"done">> ELSE <<>>

\* The arguments a callback passes on to the user function.
Forwarded(w, args) ==
    IF w.fwd THEN (IF Len(args) > 0 THEN <<args[1]>> ELSE <<"undefined">>)
    ELSE <<>>

\* () => target.before() and (done) => target.before(done), and the same
\* for target.after.
StaticHookCalls(w, args) ==
    <<Ev("enter", w.fn, 0, args, 0),
      Ev("call", w.fn, ClassRef, Forwarded(w, args), 0)>>

\* Mutant: the new object goes to a local that shadows `instance`.
BeforeEachShadowed(w, args, obj) ==
    <<Ev("enter", "beforeEachFunction", 0, args, 0),
      Ev("new", "target", obj, <<>>, 0)>>
    \o (IF w.fn # ""
        THEN <<Ev("call", w.fn, obj, Forwarded(w, args), 0)>>
        ELSE <<>>)

\* beforeEachFunction with obj the object new target() returns.
BeforeEachCalls(w, args, obj) ==
    <<Ev("enter", "beforeEachFunction", 0, args, 0),
      Ev("new", "target", obj, <<>>, 0),
      Ev("instance=", "", 0, <<>>, obj)>>
    \o (IF w.fn # ""
        THEN <<Ev("call", w.fn, obj, Forwarded(w, args), 0)>>
        ELSE <<>>)

\* Mutant: the hook is called on `instance` after it was cleared.
AfterEachOnCleared(w, args, inst) ==
    <<Ev("enter", "afterEachFunction", 0, args, 0),
      Ev("instance=", "", 0, <<>>, 0)>>
    \o (IF w.fn # ""
        THEN <<Ev("call", w.fn, 0, Forwarded(w, args), 0)>>
        ELSE <<>>)

\* afterEachFunction with inst the value of `instance` on entry.
AfterEachCalls(w, args, inst) ==
    <<Ev("enter", "afterEachFunction", 0, args, 0),
      Ev("instance=", "", 0, <<>>, 0)>>
    \o (IF w.fn # ""
        THEN <<Ev("call", w.fn, inst, Forwarded(w, args), 0)>>
        ELSE <<>>)

\* applyTimes(target)
ApplyTimes(handle, key) ==
    LET timeoutValue == tags[key][timeoutSymbol]
        slowValue == tags[key][slowSymbol]
    IN (IF timeoutValue.t = "number"
        THEN <<Ev("timeout", handle, 0, <<>>, timeoutValue.n)>>
        ELSE <<>>)
       \o (IF slowValue.t = "number"
           THEN <<Ev("slow", handle, 0, <<>>, slowValue.n)>>
           ELSE <<>>)

\* The handle the case callback configures: the arrow function's `this` is
\* the describe callback's, not the one the runner calls the case with.
TimesTarget(captured, callThis) == captured

\* The callback registered for a case, called by the runner with callThis
\* as `this`.
CaseCalls(c, args, callThis, inst) ==
    <<Ev("enter", "case", 0, args, 0)>>
    \o ApplyTimes(TimesTarget(lexicalThis, callThis), c.key)
    \o <<Ev("call", c.key, inst, Forwarded(c, args), 0)>>

\* The value of `instance` after a callback that did `trace`, inst being
\* its value before.
InstanceAfter(trace, inst) ==
    LET idx == {i \in 1..Len(trace) : trace[i].op = "instance="}
    IN IF idx = {} THEN inst
       ELSE trace[CHOOSE i \in idx : \A j \in idx : j <= i].val

\* The objects new target() returned during `trace`.
Constructed(trace) ==
    {trace[i].this : i \in {j \in 1..Len(trace) : trace[j].op = "new"}}

\* What a callback returns: the user function's return value, if it calls
\* one.
Returned(w) == IF w.fn # "" THEN ReturnOf(w.fn) ELSE "undefined"

----------------------------------------------------------------------------
(* The runner *)

IsOnly(i) == cases[i].entry = "it.only"

\* The runner skips cases registered through it.skip, and runs only the
\* exclusive cases when there are any.
Runnable(i) ==
    /\ cases[i].entry # "it.skip"
    /\ (\E j \in 1..Len(cases) : IsOnly(j)) => IsOnly(i)

\* The suite starts: the before-all hook, if one was registered.
RunBeforeAll ==
    /\ pc = "registered"
    /\ pc' = "cases"
    /\ cur' = 1
    /\ IF beforeAllHooks # <<>>
       THEN LET w == beforeAllHooks[1]
            IN /\ calls' = StaticHookCalls(w, RunnerArgs(w.len))
               /\ ret' = Returned(w)
       ELSE UNCHANGED <<calls, ret>>
    /\ UNCHANGED <<target, suiteMarkers, instance, created, built, bodyThis>>
    /\ UNCHANGED registryVars
    /\ UNCHANGED runnerVars

\* A case that does not run.
SkipCase ==
    /\ pc = "cases"
    /\ cur <= Len(cases)
    /\ ~Runnable(cur)
    /\ cur' = cur + 1
    /\ UNCHANGED <<pc, target, suiteMarkers, instance, created, built,
                   bodyThis, calls, ret>>
    /\ UNCHANGED registryVars
    /\ UNCHANGED runnerVars

\* Per-case setup: the runner invokes beforeEachFunction.
RunBeforeEach ==
    /\ pc = "cases"
    /\ cur <= Len(cases)
    /\ Runnable(cur)
    /\ LET w == beforeEachHooks[1]
           obj == created + 1
       IN /\ calls' = BeforeEachCalls(w, RunnerArgs(w.len), obj)
          /\ ret' = Returned(w)
          /\ created' = created + Cardinality(Constructed(calls'))
          /\ instance' = InstanceAfter(calls', instance)
          /\ built' = Append(built, [case |-> cur, objs |-> Constructed(calls')])
    /\ pc' = "setup"
    /\ UNCHANGED <<target, suiteMarkers, cur, bodyThis>>
    /\ UNCHANGED registryVars
    /\ UNCHANGED runnerVars

\* The case body: the runner invokes the callback registered for the case.
RunCase ==
    /\ pc = "setup"
    /\ LET c == cases[cur]
       IN /\ calls' = CaseCalls(c, RunnerArgs(c.len), CaseContext, instance)
          /\ ret' = ReturnOf(c.key)
    /\ bodyThis' = Append(bodyThis, [case |-> cur, obj |-> instance])
    /\ pc' = "body"
    /\ UNCHANGED <<target, suiteMarkers, instance, created, cur, built>>
    /\ UNCHANGED registryVars
    /\ UNCHANGED runnerVars

\* Per-case teardown: the runner invokes afterEachFunction.
RunAfterEach ==
    /\ pc = "body"
    /\ LET w == afterEachHooks[1]
       IN /\ calls' = AfterEachCalls(w, RunnerArgs(w.len), instance)
          /\ ret' = Returned(w)
    /\ instance' = InstanceAfter(calls', instance)
    /\ pc' = "teardown"
    /\ UNCHANGED <<target, suiteMarkers, created, cur, built, bodyThis>>
    /\ UNCHANGED registryVars
    /\ UNCHANGED runnerVars

\* The runner moves on to the next case.
NextCase ==
    /\ pc = "teardown"
    /\ pc' = "cases"
    /\ cur' = cur + 1
    /\ UNCHANGED <<target, suiteMarkers, instance, created, built, bodyThis,
                   calls, ret>>
    /\ UNCHANGED registryVars
    /\ UNCHANGED runnerVars

\* The suite ends: the after-all hook, if one was registered.
RunAfterAll ==
    /\ pc = "cases"
    /\ cur > Len(cases)
    /\ pc' = "done"
    /\ IF afterAllHooks # <<>>
       THEN LET w == afterAllHooks[1]
            IN /\ calls' = StaticHookCalls(w, RunnerArgs(w.len))
               /\ ret' = Returned(w)
       ELSE UNCHANGED <<calls, ret>>
    /\ UNCHANGED <<target, suiteMarkers, instance, created, cur, built,
                   bodyThis>>
    /\ UNCHANGED registryVars
    /\ UNCHANGED runnerVars

----------------------------------------------------------------------------

Next ==
    \/ \E n \in TestNames : Test(Str(n), Undefined)
    \/ \E k \in Keys : Test(Proto, Str(k))
    \/ \E n \in TestNames, k \in Keys : ApplyTestMarker(n, k)
    \/ \E time \in SlowTimes, k \in Keys : Slow(time, k)
    \/ \E time \in TimeoutTimes, k \in Keys : Timeout(time, k)
    \/ \E k \in Keys : Only(k)
    \/ \E k \in Keys : Skip(k)
    \/ \E n \in SuiteNames : Suite(Str(n))
    \/ Suite(Fn(target.name))
    \/ \E n \in SuiteNames : ApplySuiteMarker(n)
    \/ RunBeforeAll
    \/ SkipCase
    \/ RunBeforeEach
    \/ RunCase
    \/ RunAfterEach
    \/ NextCase
    \/ RunAfterAll

Spec == Init /\ [][Next]_vars

----------------------------------------------------------------------------
(* Properties *)

Started == pc \notin {"define", "crashed"}

\* The indices of the registrations made for a member.
RegistrationsOf(key) == {i \in 1..Len(cases) : cases[i].key = key}

\* The positions in the last callback's trace of the events `op` on `on`.
Positions(op, on) ==
    {i \in 1..Len(calls) : calls[i].op = op /\ calls[i].on = on}

\* The object the per-case setup of the current case constructed.
CurrentObject == built[Len(built)].objs

\* C1 (as claimed): once suite() is applied, every own member that carries
\* a display-name tag and declares 0 or 1 parameters has exactly one
\* registration, under the recorded display name.
C1_TaggedMemberRegisteredOnce ==
    Started =>
        \A k \in Keys :
            ( /\ target.own[k]
              /\ tags[k][testNameSymbol] # Undefined
              /\ target.arity[k] <= 1 )
            => /\ Cardinality(RegistrationsOf(k)) = 1
               /\ \A i \in RegistrationsOf(k) :
                      cases[i].name = tags[k][testNameSymbol]

\* C2: applying suite to a class calls describe exactly once, with the
\* explicit name of the marker in the configure-then-apply form and with
\* the class's own name in the direct form.
C2_SuiteNameReceived ==
    [][ /\ \A n \in SuiteNames :
               ApplySuiteMarker(n)
               => describeCalls' = Append(describeCalls, Str(n))
        /\ Suite(Fn(target.name))
           => describeCalls' = Append(describeCalls, Str(target.name)) ]_vars

C2_Witness ==
    /\ pc = "registered"
    /\ describeCalls = <<Str("S")>>

\* C3: every case body runs on a non-empty instance that the per-case
\* setup of that same case constructed, after the instance-level before
\* hook (if any) was invoked on it, and no instance is the receiver of two
\* cases' bodies.
C3_FreshInstancePerCase ==
    /\ \A i \in 1..Len(bodyThis) :
           /\ bodyThis[i].obj # 0
           /\ \E j \in 1..Len(built) :
                  /\ built[j].case = bodyThis[i].case
                  /\ built[j].objs = {bodyThis[i].obj}
    /\ \A i, j \in 1..Len(bodyThis) :
           bodyThis[i].obj = bodyThis[j].obj => i = j
    /\ pc = "setup" =>
           /\ CurrentObject = {instance}
           /\ target.protoBefore # Absent =>
                  \E i \in Positions("new", "target"),
                     j \in Positions("call", "prototype.before") :
                      i < j /\ calls[j].this = instance

C3_Witness ==
    /\ Len(bodyThis) = 2
    /\ target.protoBefore # Absent

\* C4 (as claimed): the after hook is invoked on the case's instance and
\* the stored instance is cleared only after the hook was invoked.
C4_ClearedAfterHook ==
    (pc = "teardown" /\ target.protoAfter # Absent) =>
        \E i \in Positions("call", "prototype.after"),
           j \in Positions("instance=", "") :
            /\ calls[i].this = bodyThis[Len(bodyThis)].obj
            /\ i < j

\* C4 (amended): the after hook is invoked on the instance the case ran
\* on, after the stored instance was cleared; the stored instance is empty
\* once the teardown callback has run; without a hook it is only cleared.
C4_HookOnCaseInstance ==
    pc = "teardown" =>
        /\ instance = 0
        /\ Positions("instance=", "") # {}
        /\ IF target.protoAfter # Absent
           THEN \E i \in Positions("instance=", ""),
                   j \in Positions("call", "prototype.after") :
                    /\ i < j
                    /\ calls[i].val = 0
                    /\ calls[j].this = bodyThis[Len(bodyThis)].obj
                    /\ calls[j].this # 0
           ELSE \A i \in 1..Len(calls) : calls[i].op # "call"

C4_Witness ==
    /\ pc = "teardown"
    /\ target.protoAfter # Absent

\* The setter calls of kind op in the last callback's trace.
SetterCalls(op) == {i \in 1..Len(calls) : calls[i].op = op}

\* C5 (as claimed): when a case body has been invoked, the timeout and slow
\* setters of that case's own configuration handle were called before it
\* with the tagged values, and no setter was called for an untagged kind.
C5_TimesAppliedToCaseHandle ==
    pc = "body" =>
        LET key == cases[cur].key
            body == CHOOSE i \in Positions("call", key) : TRUE
            Applied(op, tag) ==
                IF tag.t = "number"
                THEN \E i \in SetterCalls(op) :
                         /\ calls[i].on = CaseContext
                         /\ calls[i].val = tag.n
                         /\ i < body
                ELSE SetterCalls(op) = {}
        IN /\ Applied("slow", tags[key][slowSymbol])
           /\ Applied("timeout", tags[key][timeoutSymbol])

\* C6: a member is registered through one entry point only: it.skip when
\* it carries a skip tag, else it.only when it carries an only tag, else
\* it.
C6_EntryPointByFlags ==
    \A i \in 1..Len(cases) :
        LET key == cases[i].key
        IN /\ RegistrationsOf(key) = {i}
           /\ cases[i].entry =
                  IF tags[key][skipSymbol] # Undefined THEN "it.skip"
                  ELSE IF tags[key][onlySymbol] # Undefined THEN "it.only"
                  ELSE "it"

C6_Witness ==
    \E i \in 1..Len(cases) :
        /\ cases[i].entry = "it.skip"
        /\ tags[cases[i].key][onlySymbol] # Undefined

\* C7 (as claimed): every string first argument makes suite() and test()
\* return a marker without registering or tagging anything.
C7_StringSelectsMarkerForm ==
    [][ /\ \A n \in TestNames :
               Test(Str(n), Undefined)
               => /\ ret' = "result"
                  /\ n \in testMarkers'
                  /\ UNCHANGED <<pc, tags>>
        /\ \A n \in SuiteNames :
               Suite(Str(n))
               => /\ ret' = "result"
                  /\ n \in suiteMarkers'
                  /\ UNCHANGED <<pc, describeCalls, cases>> ]_vars

\* C8: the display-name tag of a member changes only when a test marker is
\* applied to it, and is then the value that application writes: the
\* explicit name for a marker of test(name), the member's key for test
\* applied directly; slow, timeout, only and skip leave it alone.
C8_LastTestWriteWins ==
    [][ \A k \in Keys :
            /\ \A n \in TestNames :
                   ApplyTestMarker(n, k) => tags'[k][testNameSymbol] = Str(n)
            /\ Test(Proto, Str(k)) => tags'[k][testNameSymbol] = Str(k)
            /\ ~( \/ Test(Proto, Str(k))
                  \/ \E n \in TestNames : ApplyTestMarker(n, k) )
               => tags'[k][testNameSymbol] = tags[k][testNameSymbol] ]_vars

C8_Witness ==
    /\ tags["a"][testNameSymbol] = Str("a")
    /\ tags["a"][slowSymbol] # Undefined
    /\ tags["b"][testNameSymbol] = Str("adds numbers")

\* C9: a registered case is always an own member that carries a
\* display-name tag and declares at most one parameter.
C9_OnlyEligibleRegistered ==
    \A i \in 1..Len(cases) :
        LET key == cases[i].key
        IN /\ tags[key][testNameSymbol] # Undefined
           /\ target.arity[key] <= 1
           /\ target.own[key]

C9_Witness ==
    /\ Len(cases) = 1
    /\ ~target.own["b"]
    /\ tags["b"][testNameSymbol] # Undefined

\* The declared parameter count of the user function a call event names.
DeclaredLength(on) ==
    CASE on = "target.before" -> target.before
      [] on = "target.after" -> target.after
      [] on = "prototype.before" -> target.protoBefore
      [] on = "prototype.after" -> target.protoAfter
      [] OTHER -> target.arity[on]

\* C10: a user function with no declared parameters is called with no
\* arguments and its return value is what the callback returns; one with
\* declared parameters is called with exactly the runner's completion
\* callback; instance hooks and case bodies run on the per-case instance;
\* a static hook is registered only if the class has it.
C10_ArityPicksConvention ==
    /\ \A i \in 1..Len(calls) :
           calls[i].op = "call" =>
               /\ calls[i].args =
                      IF DeclaredLength(calls[i].on) = 0 THEN <<>>
                      ELSE <<"done">>
               /\ DeclaredLength(calls[i].on) = 0
                  => ret = ReturnOf(calls[i].on)
               /\ calls[i].on \notin {"target.before", "target.after"}
                  => {calls[i].this} = CurrentObject
    /\ beforeAllHooks # <<>> => target.before # Absent
    /\ afterAllHooks # <<>> => target.after # Absent

C10_Witness ==
    /\ target.protoBefore = 2
    /\ \E i \in Positions("call", "prototype.before") :
           calls[i].args = <<"done">>

====
